---- MODULE Spec2Model ----
(***************************************************************************)
(* PyPMM: read_plate_outline and plot_plate_motion (src/plot_utils.py)     *)
(* with the plate tables of src/models.py.                                 *)
(*                                                                         *)
(* Text is modelled after tokenisation: a line of the boundary file is a   *)
(* record [pre, toks] where pre is the two-character prefix the code tests *)
(* with startswith ("> ", "# " or "" for neither) and toks are the         *)
(* whitespace-separated tokens that follow it.  Python's None is the empty *)
(* tuple and a present value x is <<x>>.  Floating-point numbers of the    *)
(* coordinates are integers (degrees); velocities are fixed-point numbers. *)
(***************************************************************************)
EXTENDS Integers, Sequences, FiniteSets, TLC

VARIABLES
    pc,                 \* position in the running function
    pmm_name,           \* argument of read_plate_outline
    boundary_ext,       \* last extension of PLATE_BOUNDARY_FILE[pmm_name]
    coord_order,        \* local of read_plate_outline
    plate_abbrev2name,  \* local of read_plate_outline
    file_opened,        \* TRUE once open(plate_boundary_file) has run
    lines,              \* f.readlines()
    lineno,             \* number of lines the for loop has consumed
    key, vertices,      \* locals of the loop
    outlines,           \* the dictionary under construction
    plate_name,         \* argument of read_plate_outline
    ret,                \* what the running function returned or raised
    plate_boundary,     \* argument of plot_plate_motion
    epole_obj,          \* argument of plot_plate_motion (None or a pole)
    qnum,               \* kwargs['qnum']
    cand_lats, cand_lons,       \* the flattened candidate lattice
    ci,                 \* number of candidates the sampler's loop has tested
    flag,               \* flag array of the sampler
    sample_lats, sample_lons,   \* what the sampler returns
    sidx,               \* index of the sample whose velocity is being corrected
    vel                 \* the velocity of that sample: raw, norm and corrected

vars == <<pc, pmm_name, boundary_ext, coord_order, plate_abbrev2name, file_opened,
          lines, lineno, key, vertices, outlines, plate_name, ret,
          plate_boundary, epole_obj, qnum, cand_lats, cand_lons, ci, flag,
          sample_lats, sample_lons, sidx, vel>>

readVars == <<pmm_name, boundary_ext, coord_order, plate_abbrev2name, file_opened,
              lines, lineno, key, vertices, outlines, plate_name>>
plotVars == <<plate_boundary, epole_obj, qnum, cand_lats, cand_lons, ci, flag,
              sample_lats, sample_lons, sidx, vel>>

---------------------------------------------------------------------------
(* Python values *)

None == <<>>
Some(x) == <<x>>

NoExc == [type |-> "", arg |-> ""]
Exc(t, a) == [type |-> t, arg |-> a]
EmptyDict == [n \in {} |-> <<>>]
DictSet(d, k, v) == [n \in (DOMAIN d) \cup {k} |-> IF n = k THEN v ELSE d[n]]

---------------------------------------------------------------------------
(* src/models.py: name and Abbrev field of every Tag (the backquote of *)
(* Niuafo`ou is written as an underscore)                               *)

GSRM_V21_PMM_ITEMS ==
  { <<"Africa", "AF">>, <<"Amur", "AM">>, <<"Antarctica", "AN">>, <<"Arabia", "AR">>,
    <<"AegeanSea", "AS">>, <<"Australia", "AU">>, <<"BajaCalifornia", "BC">>,
    <<"Bering", "BG">>, <<"Burma", "BU">>, <<"Caribbean", "CA">>, <<"Caroline", "CL">>,
    <<"Cocos", "CO">>, <<"Capricorn", "CP">>, <<"Danakil", "DA">>, <<"Easter", "EA">>,
    <<"Eurasia", "EU">>, <<"Galapagos", "GP">>, <<"Gonave", "GV">>, <<"India", "IN">>,
    <<"JuandeFuca", "JF">>, <<"JuanFernandez", "JZ">>, <<"Lwandle", "LW">>,
    <<"Mariana", "MA">>, <<"NorthAmerica", "NA">>, <<"NorthBismarck", "NB">>,
    <<"Niuafo_ou", "NI">>, <<"Nazca", "NZ">>, <<"Okhotsk", "OK">>, <<"Okinawa", "ON">>,
    <<"Pacific", "PA">>, <<"Panama", "PM">>, <<"PuertoRico", "PR">>,
    <<"PhilippineSea", "PS">>, <<"Rivera", "RI">>, <<"Rovuma", "RO">>,
    <<"SouthAmerica", "SA">>, <<"SouthBismarck", "SB">>, <<"Scotia", "SC">>,
    <<"Sinai", "SI">>, <<"Sakishima", "SK">>, <<"Shetland", "SL">>, <<"Somalia", "SO">>,
    <<"SolomonSea", "SS">>, <<"Satunam", "ST">>, <<"Sunda", "SU">>, <<"Sandwich", "SW">>,
    <<"Tonga", "TO">>, <<"Victoria", "VI">>, <<"Woodlark", "WL">>, <<"Yangtze", "YA">> }

NNR_MORVEL56_PMM_ITEMS ==
  { <<"Amur", "AM">>, <<"Antarctica", "AN">>, <<"Arabia", "AR">>, <<"Australia", "AU">>,
    <<"Capricorn", "CP">>, <<"Caribbean", "CA">>, <<"Cocos", "CO">>, <<"Eurasia", "EU">>,
    <<"India", "IN">>, <<"JuandeFuca", "JF">>, <<"Lwandle", "LW">>, <<"Macquarie", "MQ">>,
    <<"Nazca", "NZ">>, <<"NorthAmerica", "NA">>, <<"Nubia", "NU">>, <<"Pacific", "PA">>,
    <<"PhilippineSea", "PS">>, <<"Rivera", "RI">>, <<"Sandwich", "SW">>, <<"Scotia", "SC">>,
    <<"Somalia", "SM">>, <<"SouthAmerica", "SA">>, <<"Sunda", "SU">>, <<"Sur", "SR">>,
    <<"Yangtze", "YZ">>, <<"AegeanSea", "AS">>, <<"Altiplano", "AP">>, <<"Anatolia", "AT">>,
    <<"BalmoralReef", "BR">>, <<"BandaSea", "BS">>, <<"BirdsHead", "BH">>, <<"Burma", "BU">>,
    <<"Caroline", "CL">>, <<"ConwayReef", "CR">>, <<"Easter", "EA">>, <<"Futuna", "FT">>,
    <<"Galapagos", "GP">>, <<"JuanFernandez", "JZ">>, <<"Kermadec", "KE">>,
    <<"Manus", "MN">>, <<"Maoke", "MO">>, <<"Mariana", "MA">>, <<"MoluccaSea", "MS">>,
    <<"NewHebrides", "NH">>, <<"Niuafo_ou", "NI">>, <<"NorthAndes", "ND">>,
    <<"NorthBismarck", "NB">>, <<"Okhotsk", "OK">>, <<"Okinawa", "ON">>, <<"Panama", "PM">>,
    <<"Shetland", "SL">>, <<"SolomonSea", "SS">>, <<"SouthBismarck", "SB">>,
    <<"Timor", "TI">>, <<"Tonga", "TO">>, <<"Woodlark", "WL">> }

\* the dict literal: plate name -> Tag.Abbrev
PmmDict(items) == [n \in {p[1] : p \in items} |-> (CHOOSE p \in items : p[1] = n)[2]]
GSRM_V21_PMM == PmmDict(GSRM_V21_PMM_ITEMS)
NNR_MORVEL56_PMM == PmmDict(NNR_MORVEL56_PMM_ITEMS)

\* str.upper() on an abbreviation; every Abbrev of both tables is upper case already
Upper(s) == s

\* pmm_name values a caller passes, and the substring tests of lines 24 and 28
PmmNames == {"GSRM", "GSRMv2.1", "MORVEL", "NNR-MORVEL56", "ITRF2014"}
HasGSRM(name) == name \in {"GSRM", "GSRMv2.1"}
HasMORVEL(name) == name \in {"MORVEL", "NNR-MORVEL56"}
PmmDictOf(name) == IF name = "GSRM" THEN GSRM_V21_PMM ELSE NNR_MORVEL56_PMM

\* last extension of the boundary file's base name; models.py ships .lola for GSRM
\* and .lalo for MORVEL, "txt" stands for any other file a table entry may name
Extensions == {"lalo", "lola", "txt"}
\* the test of line 40 left out
CoordOrderAny(order) == TRUE
\* line 40
CoordOrderOk(order) == order \in {"lalo", "lola"}

\* lines 44-46
Abbrev2Name(pmm_dict) ==
    [a \in {Upper(pmm_dict[n]) : n \in DOMAIN pmm_dict} |->
        CHOOSE n \in DOMAIN pmm_dict : Upper(pmm_dict[n]) = a]

---------------------------------------------------------------------------
(* The boundary file *)

Line(pre, toks) == [pre |-> pre, toks |-> toks]

\* float(token): the literals the model's files use; any other token raises
FloatLiterals ==
  { <<"10.0", 10>>, <<"40.0", 40>>, <<"12.0", 12>>, <<"42.0", 42>>, <<"11.0", 11>>,
    <<"41.0", 41>>, <<"1.0", 1>>, <<"2.0", 2>>, <<"3.0", 3>> }
IsFloat(t) == \E p \in FloatLiterals : p[1] = t
ToFloat(t) == (CHOOSE p \in FloatLiterals : p[1] = t)[2]

\* len(line.split())
NumTokens(line) == Len(line.toks) + (IF line.pre = "" THEN 0 ELSE 1)

\* line 56
IsHeader(line) == line.pre = "> " \/ line.pre = "# " \/ NumTokens(line) = 1

RECURSIVE JoinTokens(_)
JoinTokens(toks) ==
    IF toks = <<>> THEN ""
    ELSE IF Len(toks) = 1 THEN toks[1]
    ELSE toks[1] \o " " \o JoinTokens(Tail(toks))

\* lines 62-70: the text after the prefix, or the whole line, without the newline
HeaderKey(line) == IF line.pre # "" THEN JoinTokens(line.toks) ELSE line.toks[1]

\* np.flip
Flip(v) == [i \in 1..Len(v) |-> v[Len(v) + 1 - i]]

\* line 76: the first token float() rejects, if any
BadTokens(toks) == {i \in 1..Len(toks) : ~IsFloat(toks[i])}
FirstBad(toks) == toks[CHOOSE i \in BadTokens(toks) : \A j \in BadTokens(toks) : i <= j]
AsFloat(toks) == [i \in 1..Len(toks) |-> ToFloat(toks[i])]

\* the flip of line 78 left out
VertNoFlip(toks, order) == AsFloat(toks)

\* lines 76-78
Vert(toks, order) == IF order = "lola" THEN Flip(AsFloat(toks)) ELSE AsFloat(toks)

\* np.array(vertices) of rows of one length is a 2-D array; rows of different lengths
\* raise ValueError or give an object array, depending on the numpy release
Homogeneous(rows) == \A i, j \in 1..Len(rows) : Len(rows[i]) = Len(rows[j])

\* truth value of an optional string or list: None, "" and [] are falsy
TruthyStr(o) == o # None /\ o[1] # ""
TruthyList(o) == o # None /\ o[1] # <<>>

\* the loop's state
LoopState(k, v, o, e) == [key |-> k, vertices |-> v, outlines |-> o, exc |-> e]
LoopStart == LoopState(None, None, EmptyDict, NoExc)

\* the commit of lines 58-60 without the test that vertices is non-empty
CommitPlateAnyVertices(st, a2n, raggedRaises) ==
    IF TruthyStr(st.key) /\ st.vertices # None
    THEN IF st.key[1] \notin DOMAIN a2n
         THEN [st EXCEPT !.exc = Exc("KeyError", st.key[1])]
         ELSE [st EXCEPT !.outlines = DictSet(@, a2n[st.key[1]], st.vertices[1])]
    ELSE st

\* lines 58-60
CommitPlate(st, a2n, raggedRaises) ==
    IF TruthyStr(st.key) /\ TruthyList(st.vertices)
    THEN IF st.key[1] \notin DOMAIN a2n
         THEN [st EXCEPT !.exc = Exc("KeyError", st.key[1])]
         ELSE IF ~Homogeneous(st.vertices[1]) /\ raggedRaises
              THEN [st EXCEPT !.exc = Exc("ValueError", "inhomogeneous shape")]
              ELSE [st EXCEPT !.outlines = DictSet(@, a2n[st.key[1]], st.vertices[1])]
    ELSE st

\* lines 62-72
NewPlate(st, line) ==
    IF st.exc # NoExc THEN st
    ELSE [st EXCEPT !.key = Some(HeaderKey(line)), !.vertices = Some(<<>>)]

\* lines 76-79
AppendVertex(st, line, order) ==
    IF BadTokens(line.toks) # {}
    THEN [st EXCEPT !.exc = Exc("ValueError", FirstBad(line.toks))]
    ELSE IF st.vertices = None
         THEN [st EXCEPT !.exc = Exc("AttributeError", "append")]
         ELSE [st EXCEPT !.vertices = Some(Append(@[1], Vert(line.toks, order)))]

\* the body of the for loop, lines 55-79
ProcessLine(st, line, order, a2n, raggedRaises) ==
    IF IsHeader(line)
    THEN NewPlate(CommitPlate(st, a2n, raggedRaises), line)
    ELSE AppendVertex(st, line, order)

\* the whole loop over a file, lines 52-79; an exception ends it
RECURSIVE ReadLines(_, _, _, _, _)
ReadLines(st, ls, order, a2n, raggedRaises) ==
    IF ls = <<>> \/ st.exc # NoExc THEN st
    ELSE ReadLines(ProcessLine(st, Head(ls), order, a2n, raggedRaises),
                   Tail(ls), order, a2n, raggedRaises)

\* geometry.Polygon(coords): the shell, kept in the order given
Polygon(coords) == [shell |-> coords]

Returned(kind, value) == [kind |-> kind, value |-> value, exc |-> NoExc]
Raised(e) == [kind |-> "raise", value |-> <<>>, exc |-> e]
NoReturn == [kind |-> "", value |-> <<>>, exc |-> NoExc]

\* a missing name answered with an empty outline instead of the failing subscript
SelectOutlineDefault(pname, pmm_dict, a2n, outl) ==
    IF TruthyStr(pname)
    THEN Returned("Polygon", Polygon(IF pname[1] \in DOMAIN outl THEN outl[pname[1]] ELSE <<>>))
    ELSE Returned("dict", outl)

\* lines 82-94
SelectOutline(pname, pmm_dict, a2n, outl) ==
    IF TruthyStr(pname)
    THEN IF pname[1] \notin {a2n[a] : a \in DOMAIN a2n}
         THEN IF pname[1] \notin DOMAIN pmm_dict
              THEN Raised(Exc("KeyError", pname[1]))
              ELSE Raised(Exc("ValueError", pname[1]))
         ELSE IF pname[1] \notin DOMAIN outl
              THEN Raised(Exc("KeyError", pname[1]))
              ELSE Returned("Polygon", Polygon(outl[pname[1]]))
    ELSE Returned("dict", outl)

---------------------------------------------------------------------------
(* Geometry of the interior sampler, lines 126-153.  Latitudes and         *)
(* longitudes are whole degrees; the inputs are those whose lattice points *)
(* are whole degrees too.                                                  *)

\* polygon_obj.exterior.coords: the shell as a closed ring
ExteriorCoords(polygon) ==
    LET s == polygon.shell
    IN IF s # <<>> /\ s[1] # s[Len(s)] THEN Append(s, s[1]) ELSE s

Column(coords, c) == [i \in 1..Len(coords) |-> coords[i][c]]
SeqMin(s) == CHOOSE x \in {s[i] : i \in 1..Len(s)} : \A j \in 1..Len(s) : x <= s[j]
SeqMax(s) == CHOOSE x \in {s[i] : i \in 1..Len(s)} : \A j \in 1..Len(s) : x >= s[j]

\* np.linspace with endpoint=False: the stop value left out
LinspaceOpen(start, stop, num) ==
    [k \in 1..num |-> start + ((k - 1) * (stop - start)) \div num]

\* np.linspace(start, stop, num): num points, both ends included
Linspace(start, stop, num) ==
    IF num = 1 THEN <<start>>
    ELSE [k \in 1..num |-> start + ((k - 1) * (stop - start)) \div (num - 1)]

\* np.meshgrid(x, y) with the default 'xy' indexing, then .flatten():
\* row r of the grids belongs to y[r], column c to x[c]
MeshgridFlatX(x, y) == [k \in 1..(Len(x) * Len(y)) |-> x[((k - 1) % Len(x)) + 1]]
MeshgridFlatY(x, y) == [k \in 1..(Len(x) * Len(y)) |-> y[((k - 1) \div Len(x)) + 1]]

\* lines 136-143
PolyLats(polygon) == Column(ExteriorCoords(polygon), 1)
PolyLons(polygon) == Column(ExteriorCoords(polygon), 2)
GridLats(polygon, ny) == Linspace(SeqMin(PolyLats(polygon)), SeqMax(PolyLats(polygon)), ny)
GridLons(polygon, nx) == Linspace(SeqMin(PolyLons(polygon)), SeqMax(PolyLons(polygon)), nx)
CandLats(polygon, ny, nx) == MeshgridFlatX(GridLats(polygon, ny), GridLons(polygon, nx))
CandLons(polygon, ny, nx) == MeshgridFlatY(GridLats(polygon, ny), GridLons(polygon, nx))

\* polygon_obj.contains(Point(x, y)) of line 148: the point lies in the interior,
\* a point on the boundary is not contained
OnSegment(p, a, b) ==
    /\ (b[1] - a[1]) * (p[2] - a[2]) = (b[2] - a[2]) * (p[1] - a[1])
    /\ (a[1] <= p[1] /\ p[1] <= b[1]) \/ (b[1] <= p[1] /\ p[1] <= a[1])
    /\ (a[2] <= p[2] /\ p[2] <= b[2]) \/ (b[2] <= p[2] /\ p[2] <= a[2])
CrossesRay(p, a, b) ==
    /\ (a[2] > p[2]) # (b[2] > p[2])
    /\ IF b[2] > a[2]
       THEN (p[1] - a[1]) * (b[2] - a[2]) < (p[2] - a[2]) * (b[1] - a[1])
       ELSE (p[1] - a[1]) * (b[2] - a[2]) > (p[2] - a[2]) * (b[1] - a[1])
Contains(polygon, p) ==
    LET ring == ExteriorCoords(polygon)
        edges == 1..(Len(ring) - 1)
    IN /\ \A e \in edges : ~OnSegment(p, ring[e], ring[e + 1])
       /\ Cardinality({e \in edges : CrossesRay(p, ring[e], ring[e + 1])}) % 2 = 1

\* lines 150-151: cand[flag]
RECURSIVE Masked(_, _)
Masked(values, mask) ==
    IF values = <<>> THEN <<>>
    ELSE IF Head(mask) THEN <<Head(values)>> \o Masked(Tail(values), Tail(mask))
         ELSE Masked(Tail(values), Tail(mask))

---------------------------------------------------------------------------
(* Floating point of the velocity correction, lines 209-220.  A finite     *)
(* number x is the fixed-point integer round(x * FRAC); nan and inf are    *)
(* values of their own, produced by the divisions as IEEE 754 produces     *)
(* them.                                                                   *)

FRAC == 1000

Fin(n) == [k |-> "fin", v |-> n]
NaN == [k |-> "nan", v |-> 0]
Inf(sign) == [k |-> "inf", v |-> sign]
Sign(n) == IF n < 0 THEN -1 ELSE 1

RoundDiv(n, d) == IF d > 0 THEN (2 * n + d) \div (2 * d) ELSE (2 * (-n) - d) \div (2 * (-d))

\* floor of the square root, by bisection
RECURSIVE SqrtBetween(_, _, _)
SqrtBetween(n, lo, hi) ==
    IF lo = hi THEN lo
    ELSE LET mid == (lo + hi + 1) \div 2
         IN IF mid * mid <= n THEN SqrtBetween(n, mid, hi) ELSE SqrtBetween(n, lo, mid - 1)
ISqrt(n) ==
    LET r == SqrtBetween(n, 0, 46340)
    IN IF n - r * r > r THEN r + 1 ELSE r

FAdd(a, b) ==
    IF a.k = "nan" \/ b.k = "nan" THEN NaN
    ELSE IF a.k = "inf" /\ b.k = "inf" THEN (IF a.v = b.v THEN a ELSE NaN)
    ELSE IF a.k = "inf" THEN a
    ELSE IF b.k = "inf" THEN b
    ELSE Fin(a.v + b.v)
FMul(a, b) ==
    IF a.k = "nan" \/ b.k = "nan" THEN NaN
    ELSE IF a.k = "inf" \/ b.k = "inf"
         THEN (IF a.v = 0 \/ b.v = 0 THEN NaN ELSE Inf(Sign(a.v) * Sign(b.v)))
    ELSE Fin(RoundDiv(a.v * b.v, FRAC))
FDiv(a, b) ==
    IF a.k = "nan" \/ b.k = "nan" THEN NaN
    ELSE IF a.k = "inf" THEN (IF b.k = "inf" THEN NaN ELSE Inf(a.v * Sign(b.v)))
    ELSE IF b.k = "inf" THEN Fin(0)
    ELSE IF b.v = 0 THEN (IF a.v = 0 THEN NaN ELSE Inf(Sign(a.v)))
    ELSE Fin(RoundDiv(a.v * FRAC, b.v))
FSqrt(a) ==
    IF a.k = "nan" THEN NaN
    ELSE IF a.k = "inf" THEN (IF a.v > 0 THEN a ELSE NaN)
    ELSE IF a.v < 0 THEN NaN
    ELSE Fin(ISqrt(a.v * FRAC))

\* np.cos(np.deg2rad(lat)) for a whole number of degrees, in units of 1/10000
CosTable ==
  << 
     10000, 9998, 9994, 9986, 9976, 9962, 9945, 9925, 9903, 9877, 9848, 9816, 9781,
     9744, 9703, 9659, 9613, 9563, 9511, 9455, 9397, 9336, 9272, 9205, 9135, 9063,
     8988, 8910, 8829, 8746, 8660, 8572, 8480, 8387, 8290, 8192, 8090, 7986, 7880,
     7771, 7660, 7547, 7431, 7314, 7193, 7071, 6947, 6820, 6691, 6561, 6428, 6293,
     6157, 6018, 5878, 5736, 5592, 5446, 5299, 5150, 5000, 4848, 4695, 4540, 4384,
     4226, 4067, 3907, 3746, 3584, 3420, 3256, 3090, 2924, 2756, 2588, 2419, 2250,
     2079, 1908, 1736, 1564, 1392, 1219, 1045, 872, 698, 523, 349, 175, 0 >>
CosDeg(lat) ==
    LET a == IF lat < 0 THEN -lat ELSE lat
    IN Fin(RoundDiv(CosTable[a + 1] * FRAC, 10000))

\* line 214 and the numerator of line 218
Norm(ve, vn) == FSqrt(FAdd(FMul(ve, ve), FMul(vn, vn)))

\* lines 212-213
ToMmPerYear(v) == FMul(v, Fin(1000 * FRAC))

\* line 217
DivideByCos(ve, lat) == FDiv(ve, CosDeg(lat))

\* the ratio of line 218 taken the other way round
RenormInverted(ve, vn, norm) == FDiv(norm, Norm(ve, vn))

\* line 218
Renorm(ve, vn, norm) == FDiv(Norm(ve, vn), norm)

\* lines 219-220
Rescale(v, renorm) == FDiv(v, renorm)

\* lines 212-220 for one sample: ve0, vn0 are what get_velocity_enu returned (m/yr)
CorrectVelocity(lat, ve0, vn0) ==
    LET ve1 == ToMmPerYear(ve0)
        vn1 == ToMmPerYear(vn0)
        norm == Norm(ve1, vn1)
        ve2 == DivideByCos(ve1, lat)
        renorm == Renorm(ve2, vn1, norm)
    IN [lat |-> lat, ve_raw |-> ve1, vn_raw |-> vn1, norm |-> norm,
        ve |-> Rescale(ve2, renorm), vn |-> Rescale(vn1, renorm)]

NoVelocity ==
    [lat |-> 0, ve_raw |-> Fin(0), vn_raw |-> Fin(0), norm |-> Fin(0),
     ve |-> Fin(0), vn |-> Fin(0)]

---------------------------------------------------------------------------
(* Inputs of read_plate_outline *)

MaxLines == 4

LineAlphabet ==
  { Line("> ", <<"AR">>),               \* Arabia in both tables
    Line("# ", <<"AF">>),               \* Africa in GSRM, no plate of MORVEL
    Line("", <<"NU">>),                 \* Nubia in MORVEL, no plate of GSRM
    Line("", <<"10.0", "40.0">>),
    Line("", <<"12.0", "42.0">>),
    Line("", <<"1.0", "2.0", "3.0">>),
    Line("", <<"foo", "bar">>),
    Line("", <<>>) }                    \* a blank line

\* the single record '> AR' with three vertices
ArabiaFile ==
  << Line("> ", <<"AR">>), Line("", <<"10.0", "40.0">>),
     Line("", <<"12.0", "42.0">>), Line("", <<"11.0", "41.0">>) >>

Files == (UNION {[1..n -> LineAlphabet] : n \in 0..MaxLines}) \cup {ArabiaFile}

PlateArgs == {None, Some(""), Some("Arabia"), Some("Africa"), Some("Nubia"), Some("Atlantis")}

---------------------------------------------------------------------------
(* read_plate_outline, src/plot_utils.py lines 14-94 *)

Init ==
    /\ pc = "idle"
    /\ pmm_name = "" /\ boundary_ext = "" /\ coord_order = ""
    /\ plate_abbrev2name = EmptyDict
    /\ file_opened = FALSE
    /\ lines = <<>> /\ lineno = 0
    /\ key = None /\ vertices = None /\ outlines = EmptyDict
    /\ plate_name = None
    /\ ret = NoReturn
    /\ plate_boundary = None /\ epole_obj = None /\ qnum = 0
    /\ cand_lats = <<>> /\ cand_lons = <<>> /\ ci = 0 /\ flag = <<>>
    /\ sample_lats = <<>> /\ sample_lons = <<>>
    /\ sidx = 0 /\ vel = NoVelocity

\* a call read_plate_outline(pmm_name, ...) with the boundary file table as it stands
CallRead ==
    /\ pc = "idle"
    /\ \E name \in PmmNames, e \in Extensions :
          /\ pmm_name' = name
          /\ boundary_ext' = e
    /\ pc' = "check_input"
    /\ UNCHANGED <<coord_order, plate_abbrev2name, file_opened, lines, lineno, key,
                   vertices, outlines, plate_name, ret>>
    /\ UNCHANGED plotVars

\* lines 24-35
CheckInput ==
    /\ pc = "check_input"
    /\ IF HasGSRM(pmm_name)
       THEN pmm_name' = "GSRM" /\ pc' = "check_order" /\ ret' = ret
       ELSE IF HasMORVEL(pmm_name)
            THEN pmm_name' = "MORVEL" /\ pc' = "check_order" /\ ret' = ret
            ELSE /\ ret' = Raised(Exc("ValueError", pmm_name))
                 /\ pc' = "done" /\ pmm_name' = pmm_name
    /\ UNCHANGED <<boundary_ext, coord_order, plate_abbrev2name, file_opened, lines,
                   lineno, key, vertices, outlines, plate_name>>
    /\ UNCHANGED plotVars

\* lines 38-41
CheckCoordOrder ==
    /\ pc = "check_order"
    /\ coord_order' = boundary_ext
    /\ IF CoordOrderOk(boundary_ext)
       THEN pc' = "abbrev" /\ ret' = ret
       ELSE pc' = "done" /\ ret' = Raised(Exc("ValueError", boundary_ext))
    /\ UNCHANGED <<pmm_name, boundary_ext, plate_abbrev2name, file_opened, lines,
                   lineno, key, vertices, outlines, plate_name>>
    /\ UNCHANGED plotVars

\* lines 44-46
BuildAbbrev2Name ==
    /\ pc = "abbrev"
    /\ plate_abbrev2name' = Abbrev2Name(PmmDictOf(pmm_name))
    /\ pc' = "open"
    /\ UNCHANGED <<pmm_name, boundary_ext, coord_order, file_opened, lines, lineno,
                   key, vertices, outlines, plate_name, ret>>
    /\ UNCHANGED plotVars

\* lines 49-52: the file is opened and read whole
OpenFile ==
    /\ pc = "open"
    /\ \E f \in Files : lines' = f
    /\ file_opened' = TRUE
    /\ lineno' = 0
    /\ key' = None /\ vertices' = None /\ outlines' = EmptyDict
    /\ pc' = "loop"
    /\ UNCHANGED <<pmm_name, boundary_ext, coord_order, plate_abbrev2name, plate_name, ret>>
    /\ UNCHANGED plotVars

\* lines 54-79: one iteration of the for loop
ReadLine ==
    /\ pc = "loop"
    /\ lineno < Len(lines)
    /\ \E raggedRaises \in BOOLEAN :
         LET st == ProcessLine(LoopState(key, vertices, outlines, NoExc), lines[lineno + 1],
                               coord_order, plate_abbrev2name, raggedRaises)
         IN /\ key' = st.key
            /\ vertices' = st.vertices
            /\ outlines' = st.outlines
            /\ IF st.exc = NoExc
               THEN pc' = "loop" /\ ret' = ret
               ELSE pc' = "done" /\ ret' = Raised(st.exc)
    /\ lineno' = lineno + 1
    /\ UNCHANGED <<pmm_name, boundary_ext, coord_order, plate_abbrev2name, file_opened,
                   lines, plate_name>>
    /\ UNCHANGED plotVars

\* lines 81-94, for the plate_name the caller passed
ReturnOutline ==
    /\ pc = "loop"
    /\ lineno = Len(lines)
    /\ \E pn \in PlateArgs :
          /\ plate_name' = pn
          /\ ret' = SelectOutline(pn, PmmDictOf(pmm_name), plate_abbrev2name, outlines)
    /\ pc' = "done"
    /\ UNCHANGED <<pmm_name, boundary_ext, coord_order, plate_abbrev2name, file_opened,
                   lines, lineno, key, vertices, outlines>>
    /\ UNCHANGED plotVars

---------------------------------------------------------------------------
(* Inputs of plot_plate_motion *)

MaxQnum == 11

Square == Polygon(<< <<0, 0>>, <<0, 10>>, <<10, 10>>, <<10, 0>> >>)
Triangle == Polygon(<< <<0, 0>>, <<60, 0>>, <<0, 60>> >>)
\* an L-shaped plate: not convex
Ell == Polygon(<< <<0, 0>>, <<0, 40>>, <<20, 40>>, <<20, 20>>, <<40, 20>>, <<40, 0>> >>)
Polygons == {Square, Triangle, Ell}

\* the lattice of the polygon at this resolution has whole-degree points
WholeDegrees(polygon, n) ==
    IF n = 1 THEN TRUE
    ELSE /\ (SeqMax(PolyLats(polygon)) - SeqMin(PolyLats(polygon))) % (n - 1) = 0
         /\ (SeqMax(PolyLons(polygon)) - SeqMin(PolyLons(polygon))) % (n - 1) = 0

\* velocities get_velocity_enu may return, in fixed-point m/yr
Velocities == {Fin(-20), Fin(-7), Fin(0), Fin(3), Fin(20)}

---------------------------------------------------------------------------
(* plot_plate_motion, src/plot_utils.py lines 97-238 *)

\* a call plot_plate_motion(plate_boundary, epole_obj, qnum=...)
CallPlot ==
    /\ pc = "idle"
    /\ \E polygon \in Polygons, n \in 1..MaxQnum, pole \in {None, Some("EulerPole")} :
          /\ WholeDegrees(polygon, n)
          /\ plate_boundary' = Some(polygon)
          /\ qnum' = n
          /\ epole_obj' = pole
    /\ pc' = "draw"
    /\ UNCHANGED <<cand_lats, cand_lons, ci, flag, sample_lats, sample_lons, sidx, vel>>
    /\ UNCHANGED readVars
    /\ ret' = ret

\* lines 156-204: the base map and the plate polygon; no vectors without a pole
DrawPlate ==
    /\ pc = "draw"
    /\ IF plate_boundary # None /\ epole_obj # None
       THEN pc' = "grid" /\ ret' = ret
       ELSE pc' = "done" /\ ret' = Returned("figure", <<>>)
    /\ UNCHANGED plotVars
    /\ UNCHANGED readVars

\* lines 136-146 with ny = nx = kwargs['qnum'] (line 206)
MakeGrid ==
    /\ pc = "grid"
    /\ cand_lats' = CandLats(plate_boundary[1], qnum, qnum)
    /\ cand_lons' = CandLons(plate_boundary[1], qnum, qnum)
    /\ flag' = [i \in 1..(qnum * qnum) |-> FALSE]
    /\ ci' = 0
    /\ pc' = "test"
    /\ UNCHANGED <<plate_boundary, epole_obj, qnum, sample_lats, sample_lons, sidx, vel>>
    /\ UNCHANGED readVars
    /\ ret' = ret

\* lines 147-149: one iteration of the loop over the candidates
TestCandidate ==
    /\ pc = "test"
    /\ ci < Len(cand_lats)
    /\ flag' = IF Contains(plate_boundary[1], <<cand_lats[ci + 1], cand_lons[ci + 1]>>)
               THEN [flag EXCEPT ![ci + 1] = TRUE]
               ELSE flag
    /\ ci' = ci + 1
    /\ UNCHANGED <<pc, plate_boundary, epole_obj, qnum, cand_lats, cand_lons,
                   sample_lats, sample_lons, sidx, vel>>
    /\ UNCHANGED readVars
    /\ ret' = ret

\* lines 150-153
SelectSamples ==
    /\ pc = "test"
    /\ ci = Len(cand_lats)
    /\ sample_lats' = Masked(cand_lats, flag)
    /\ sample_lons' = Masked(cand_lons, flag)
    /\ sidx' = 0
    /\ pc' = "velocity"
    /\ UNCHANGED <<plate_boundary, epole_obj, qnum, cand_lats, cand_lons, ci, flag, vel>>
    /\ UNCHANGED readVars
    /\ ret' = ret

\* lines 209-220, one element of the arrays: the pole's velocity at the sample is
\* whatever get_velocity_enu returns there
CorrectSample ==
    /\ pc = "velocity"
    /\ sidx < Len(sample_lats)
    /\ \E ve0 \in Velocities, vn0 \in Velocities :
          vel' = CorrectVelocity(sample_lats[sidx + 1], ve0, vn0)
    /\ sidx' = sidx + 1
    /\ UNCHANGED <<pc, plate_boundary, epole_obj, qnum, cand_lats, cand_lons, ci, flag,
                   sample_lats, sample_lons>>
    /\ UNCHANGED readVars
    /\ ret' = ret

\* lines 223-238
DrawQuiver ==
    /\ pc = "velocity"
    /\ sidx = Len(sample_lats)
    /\ pc' = "done"
    /\ ret' = Returned("figure", <<>>)
    /\ UNCHANGED plotVars
    /\ UNCHANGED readVars

---------------------------------------------------------------------------

Next ==
    \/ CallRead \/ CheckInput \/ CheckCoordOrder \/ BuildAbbrev2Name
    \/ OpenFile \/ ReadLine \/ ReturnOutline
    \/ CallPlot \/ DrawPlate \/ MakeGrid \/ TestCandidate \/ SelectSamples
    \/ CorrectSample \/ DrawQuiver

Spec == Init /\ [][Next]_vars

---------------------------------------------------------------------------
(* Vocabulary of the properties *)

\* read_plate_outline has opened the file and has left the loop and returned or raised
ReadFinished == pc = "done" /\ file_opened
\* a coordinate line: not a header, exactly two numeric tokens
IsPair(line) == ~IsHeader(line) /\ Len(line.toks) = 2 /\ BadTokens(line.toks) = {}
HeaderIdx(ls) == {i \in 1..Len(ls) : IsHeader(ls[i])}
LastHeader(ls) == CHOOSE i \in HeaderIdx(ls) : \A j \in HeaderIdx(ls) : j <= i
\* (latitude, longitude) of a coordinate line under an order tag
LatLon(line, order) ==
    IF order = "lalo" THEN <<ToFloat(line.toks[1]), ToFloat(line.toks[2])>>
    ELSE <<ToFloat(line.toks[2]), ToFloat(line.toks[1])>>
\* the rows of every vertex list the parser holds
StoredRows ==
    (IF vertices = None THEN {} ELSE {vertices[1][i] : i \in 1..Len(vertices[1])})
    \cup UNION {{outlines[n][i] : i \in 1..Len(outlines[n])} : n \in DOMAIN outlines}
Abs(n) == IF n < 0 THEN -n ELSE n
\* a file of headers and pairs with every pair swapped, and the other order tag
SwapPairs(ls) ==
    [i \in 1..Len(ls) |->
        IF IsHeader(ls[i]) THEN ls[i] ELSE Line("", <<ls[i].toks[2], ls[i].toks[1]>>)]
OtherOrder(order) == IF order = "lalo" THEN "lola" ELSE "lalo"
\* the sampler's sequences as points, and the containment test of the call's polygon
Zip(a, b) == [i \in 1..Len(a) |-> <<a[i], b[i]>>]
InPlate(p) == Contains(plate_boundary[1], p)
Range(s) == {s[i] : i \in 1..Len(s)}
\* indices of the non-blank lines that stand before the first header, and the
\* file without them (as <<index, line>> pairs)
LeadingNoise(ls) ==
    {i \in 1..Len(ls) : ls[i].toks # <<>> /\ \A j \in 1..i : ~IsHeader(ls[j])}
WithoutLeadingNoise(ls) ==
    SelectSeq([i \in 1..Len(ls) |-> <<i, ls[i]>>], LAMBDA p : p[1] \notin LeadingNoise(ls))

---------------------------------------------------------------------------
(* C1: at end of input the pending record is committed: when the last    *)
(* header of the file has a catalog abbreviation and is followed by one  *)
(* or more coordinate lines and nothing else, the returned mapping has   *)
(* that plate's name mapped to exactly those pairs in source order.      *)
C1_EndOfInputCommit ==
    (ReadFinished /\ ret.kind = "dict" /\ HeaderIdx(lines) # {}) =>
        LET h == LastHeader(lines)
            abbrev == HeaderKey(lines[h])
            rows == [i \in 1..(Len(lines) - h) |-> LatLon(lines[h + i], coord_order)]
        IN (/\ abbrev \in DOMAIN plate_abbrev2name
            /\ h < Len(lines)
            /\ \A i \in (h + 1)..Len(lines) : IsPair(lines[i]))
           => /\ plate_abbrev2name[abbrev] \in DOMAIN ret.value
              /\ ret.value[plate_abbrev2name[abbrev]] = rows

(* C2: in a file of headers and coordinate lines that starts with a      *)
(* header, a header naming an abbreviation absent from the mapping of    *)
(* the active model makes parsing fail with a lookup error naming such   *)
(* an abbreviation, wherever the header stands and whether or not        *)
(* coordinate lines follow it; no mapping is returned.                   *)
C2_UnknownAbbreviationRaises ==
    LET unknown == {HeaderKey(lines[i]) : i \in HeaderIdx(lines)} \ DOMAIN plate_abbrev2name
    IN (/\ ReadFinished
        /\ lines # <<>> /\ IsHeader(lines[1])
        /\ \A i \in 1..Len(lines) : IsHeader(lines[i]) \/ IsPair(lines[i])
        /\ unknown # {})
       => /\ ret.kind = "raise"
          /\ ret.exc.type = "KeyError"
          /\ ret.exc.arg \in unknown

(* C3: a non-blank, non-header line that comes after a header and does   *)
(* not consist of exactly two numeric tokens makes parsing fail with a   *)
(* format error at that line, and no such line is ever a row of a vertex *)
(* list or of an outline.                                                *)
C3_MalformedLineRejected ==
    /\ (/\ file_opened /\ lineno >= 1
        /\ ~IsHeader(lines[lineno]) /\ ~IsPair(lines[lineno])
        /\ lines[lineno].toks # <<>>
        /\ \E j \in 1..(lineno - 1) : IsHeader(lines[j]))
       => (pc = "done" /\ ret.kind = "raise" /\ ret.exc.type = "ValueError")
    /\ \A row \in StoredRows : Len(row) \in {0, 2}

(* C4: for a file of headers and coordinate pairs, the records read      *)
(* under one order tag and the same records with every pair swapped read *)
(* under the other tag give the same keys, vertex sequences and outcome, *)
(* after every line; every stored vertex is (latitude, longitude).       *)
C4_OrderNormalization ==
    (file_opened /\ \A i \in 1..Len(lines) : IsHeader(lines[i]) \/ IsPair(lines[i])) =>
        LET read == SubSeq(lines, 1, lineno)
            st == ReadLines(LoopStart, SwapPairs(read), OtherOrder(coord_order),
                            plate_abbrev2name, TRUE)
        IN /\ st.outlines = outlines
           /\ st.key = key
           /\ st.vertices = vertices
           /\ (st.exc # NoExc) <=> (ret.kind = "raise" /\ plate_name = None)
           /\ st.exc # NoExc => st.exc = ret.exc
           /\ StoredRows \subseteq
                 {LatLon(read[i], coord_order) : i \in {j \in 1..Len(read) : IsPair(read[j])}}
C4_Witness ==
    /\ ReadFinished /\ coord_order = "lola" /\ ret.kind = "dict"
    /\ DOMAIN ret.value = {"Arabia"}
    /\ ret.value["Arabia"] = << <<40, 10>>, <<42, 12>> >>

C6_BadOrderTagRejected ==
    (pmm_name # "" /\ ~(boundary_ext \in {"lalo", "lola"})) =>
        /\ ~file_opened
        /\ lines = <<>> /\ lineno = 0
        /\ outlines = EmptyDict
        /\ pc \in {"check_input", "check_order", "done"}
        /\ pc = "done" => (ret.kind = "raise" /\ ret.exc.type = "ValueError")
C6_Witness ==
    /\ pc = "done" /\ pmm_name = "GSRM" /\ boundary_ext = "txt" /\ coord_order = "txt"
    /\ ret.kind = "raise" /\ ret.exc = Exc("ValueError", "txt")
    /\ ~file_opened

(* C7: the sampler builds exactly ny*nx candidates, the lattice over the *)
(* polygon's extrema with both ends included, and returns two sequences  *)
(* of one length holding exactly the candidates the polygon contains, in *)
(* the order of the flattened lattice; for the square (0,0)-(0,10)-      *)
(* (10,10)-(10,0) at ny = nx = 11, (5,5) is returned and (20,20) is not. *)
C7_InteriorSampler ==
    (pc = "velocity") =>
        LET P == plate_boundary[1]
            lo1 == SeqMin(PolyLats(P))   hi1 == SeqMax(PolyLats(P))
            lo2 == SeqMin(PolyLons(P))   hi2 == SeqMax(PolyLons(P))
            steps == IF qnum = 1 THEN {0} ELSE 0..(qnum - 1)
            den == IF qnum = 1 THEN 1 ELSE qnum - 1
            lattice == {<<lo1 + (j * (hi1 - lo1)) \div den, lo2 + (i * (hi2 - lo2)) \div den>> :
                           j \in steps, i \in steps}
            cands == Zip(cand_lats, cand_lons)
        IN /\ Len(cand_lats) = qnum * qnum /\ Len(cand_lons) = qnum * qnum
           /\ Range(cands) = lattice
           /\ Cardinality(lattice) = qnum * qnum
           /\ qnum > 1 => {<<lo1, lo2>>, <<hi1, hi2>>, <<lo1, hi2>>, <<hi1, lo2>>} \subseteq lattice
           /\ Len(sample_lats) = Len(sample_lons)
           /\ Zip(sample_lats, sample_lons) = SelectSeq(cands, InPlate)
           /\ (P = Square /\ qnum = 11) =>
                 /\ <<5, 5>> \in Range(Zip(sample_lats, sample_lons))
                 /\ <<20, 20>> \notin Range(Zip(sample_lats, sample_lons))
C7_Witness ==
    /\ pc = "velocity" /\ plate_boundary = Some(Square) /\ qnum = 11
    /\ Len(sample_lats) = 81
    /\ <<5, 5>> \in Range(Zip(sample_lats, sample_lons))

(* C8: for a sample away from the poles whose raw (East, North) vector   *)
(* is not zero, the corrected vector is finite and its norm equals the   *)
(* raw norm up to the rounding of the arithmetic (one part in FRAC).     *)
C8_MagnitudePreserved ==
    (sidx >= 1 /\ Abs(vel.lat) < 90 /\ (vel.ve_raw # Fin(0) \/ vel.vn_raw # Fin(0))) =>
        /\ vel.norm = Norm(vel.ve_raw, vel.vn_raw)
        /\ vel.ve.k = "fin" /\ vel.vn.k = "fin"
        /\ Abs(Norm(vel.ve, vel.vn).v - vel.norm.v) * FRAC <= vel.norm.v
C8_Witness ==
    /\ sidx >= 1 /\ vel.lat >= 40
    /\ vel.ve_raw = Fin(20000) /\ vel.vn_raw = Fin(-7000)
    /\ vel.ve.k = "fin" /\ vel.ve.v > 20000
    /\ vel.vn.k = "fin" /\ vel.vn.v > -7000

(* C9: a sample whose raw East and North components are both zero keeps *)
(* the zero vector after the correction; no NaN is produced for it.      *)
C9_ZeroVectorStaysZero ==
    (sidx >= 1 /\ vel.ve_raw = Fin(0) /\ vel.vn_raw = Fin(0)) =>
        (vel.ve = Fin(0) /\ vel.vn = Fin(0))

(* C10: non-empty lines that are not headers and stand before the first  *)
(* header are skipped without an error, and the returned mapping is the  *)
(* one the same file gives with those lines removed.                     *)
C10_LeadingNoiseTolerated ==
    /\ (file_opened /\ lineno >= 1 /\ lineno \in LeadingNoise(lines) /\ HeaderIdx(lines) # {})
          => ret.kind # "raise"
    /\ (ReadFinished /\ LeadingNoise(lines) # {} /\ HeaderIdx(lines) # {} /\ ret.kind = "dict") =>
          LET rest == WithoutLeadingNoise(lines)
          IN \E raggedRaises \in BOOLEAN :
                ret.value = ReadLines(LoopStart, [i \in 1..Len(rest) |-> rest[i][2]],
                                      coord_order, plate_abbrev2name, raggedRaises).outlines

\* the loop is about to read a header line and the line before it was a header too
AfterHeaderAtHeader ==
    /\ file_opened /\ pc = "loop"
    /\ lineno >= 1 /\ lineno < Len(lines)
    /\ IsHeader(lines[lineno]) /\ IsHeader(lines[lineno + 1])

====
